---- MODULE Spec2Model ----
(***************************************************************************)
(* A model of scripts/merge_benchmarks.py: the identifier normalizer, the  *)
(* version extractor, the family classifier, the alias generator, the      *)
(* score matcher, the category aggregator, the HTTP retry helper and the   *)
(* orchestration in main().                                                *)
(*                                                                         *)
(* Identifiers are TLA+ strings; TLC evaluates Len, \o and SubSeq on them. *)
(* A value that may be None is a sequence: None is <<>>, a value v <<v>>.  *)
(***************************************************************************)
EXTENDS Integers, Sequences, FiniteSets, TLC

VARIABLES
    \* normalize_model_id applied once and twice to an identifier
    npc, nparts, nx, ny, nz,
    \* fetch_json: one call
    fpc, retries, attempt, flog, slept, fresult,
    \* match_model: one call
    mpc, target, index, mresult, consulted,
    \* main()
    pc, catalog, families, aliases, files, server, all_benchmarks,
    benchmarks_data, model_scores, merged_models, matched_count, output

normVars  == <<npc, nparts, nx, ny, nz>>
fetchVars == <<fpc, retries, attempt, flog, slept, fresult>>
matchVars == <<mpc, target, index, mresult, consulted>>
mainVars  == <<pc, catalog, families, aliases, files, server, all_benchmarks,
               benchmarks_data, model_scores, merged_models, matched_count, output>>
vars == <<normVars, fetchVars, matchVars, mainVars>>

None == <<>>

Some(v) == <<v>>

IsNone(o) == Len(o) = 0

The(o) == o[1]

-----------------------------------------------------------------------------
(* Python str operations *)

Ch(s, i) == SubSeq(s, i, i)

Digits == {"0", "1", "2", "3", "4", "5", "6", "7", "8", "9"}

UpperCase == "ABCDEFGHIJKLMNOPQRSTUVWXYZ"

LowerCase == "abcdefghijklmnopqrstuvwxyz"

\* str.isdigit(): non-empty and every character a digit
IsDigit(s) == Len(s) > 0 /\ \A i \in 1..Len(s) : Ch(s, i) \in Digits

LowerCh(c) ==
    IF \E k \in 1..Len(UpperCase) : Ch(UpperCase, k) = c
    THEN Ch(LowerCase, CHOOSE k \in 1..Len(UpperCase) : Ch(UpperCase, k) = c)
    ELSE c

RECURSIVE Lower(_)
\* str.lower(), by halves
Lower(s) ==
    IF Len(s) = 0 THEN ""
    ELSE IF Len(s) = 1 THEN LowerCh(s)
    ELSE Lower(SubSeq(s, 1, Len(s) \div 2)) \o Lower(SubSeq(s, Len(s) \div 2 + 1, Len(s)))

\* str.split(sep) for a one-character separator: the pieces between
\* consecutive occurrences of sep
Split(s, sep) ==
    LET seps == {i \in 1..Len(s) : Ch(s, i) = sep}
        n == Cardinality(seps)
        pos(k) == CHOOSE i \in seps : Cardinality({j \in seps : j < i}) = k - 1
    IN  [k \in 1..(n + 1) |->
            SubSeq(s, IF k = 1 THEN 1 ELSE pos(k - 1) + 1,
                      IF k = n + 1 THEN Len(s) ELSE pos(k) - 1)]

RECURSIVE Join(_, _)
\* sep.join(parts)
Join(parts, sep) ==
    IF Len(parts) = 0 THEN ""
    ELSE IF Len(parts) = 1 THEN parts[1]
    ELSE parts[1] \o sep \o Join(Tail(parts), sep)

\* needle in hay
Contains(hay, needle) ==
    \E i \in 0..(Len(hay) - Len(needle)) : SubSeq(hay, i + 1, i + Len(needle)) = needle

StartsWith(s, p) == Len(p) <= Len(s) /\ SubSeq(s, 1, Len(p)) = p

\* s[n:]
Drop(s, n) == SubSeq(s, n + 1, Len(s))

-----------------------------------------------------------------------------
(* normalize_model_id *)

DateLen == 8

IsDateStampAnyLen(p) == IsDigit(p)

\* the filter of line 177: len(p) == 8 and p.isdigit()
IsDateStamp(p) == Len(p) = DateLen /\ IsDigit(p)

normalize_model_id(model_id) ==
    LET normalized == Lower(model_id)
        parts == Split(normalized, "-")
        filtered == SelectSeq(parts, LAMBDA p : ~IsDateStamp(p))
    IN  Join(filtered, "-")

-----------------------------------------------------------------------------
(* Specification SpecNorm: normalize_model_id applied to an identifier and *)
(* then to its own result.  The identifier is "-".join(nparts).            *)

MaxParts == 3

\* components without the separator: empty, letters in both cases, digit runs
\* of 7, 8 and 9 characters, and 8 characters that are not all digits
NormComponents ==
    {"", "a", "Sonnet", "20241022", "12345678", "2024102", "202410221", "2024102x"}

NormPartLists == UNION {[1..n -> NormComponents] : n \in 1..MaxParts}

IdleNorm == npc = "idle" /\ nparts = <<>> /\ nx = "" /\ ny = "" /\ nz = ""

InitNorm ==
    /\ npc = "input"
    /\ nparts \in NormPartLists
    /\ nx = Join(nparts, "-")
    /\ ny = ""
    /\ nz = ""

Normalize ==
    /\ npc = "input"
    /\ ny' = normalize_model_id(nx)
    /\ npc' = "once"
    /\ UNCHANGED <<nparts, nx, nz, fetchVars, matchVars, mainVars>>

NormalizeAgain ==
    /\ npc = "once"
    /\ nz' = normalize_model_id(ny)
    /\ npc' = "twice"
    /\ UNCHANGED <<nparts, nx, ny, fetchVars, matchVars, mainVars>>

NextNorm == Normalize \/ NormalizeAgain

-----------------------------------------------------------------------------
(* fetch_json(url, retries): one call.  attempt counts the requests made,  *)
(* flog records the outcome of each, slept the time.sleep(1) calls.        *)

DefaultRetries == 3

MaxRetries == 4

IdleFetch ==
    /\ fpc = "idle" /\ retries = 0 /\ attempt = 0
    /\ flog = <<>> /\ slept = 0 /\ fresult = "None"

InitFetch ==
    /\ fpc = "loop"
    /\ retries \in 0..MaxRetries
    /\ attempt = 0
    /\ flog = <<>>
    /\ slept = 0
    /\ fresult = "pending"

\* urlopen succeeds and json.loads decodes the body: return the payload
RequestOk ==
    /\ fpc = "loop" /\ attempt < retries
    /\ attempt' = attempt + 1
    /\ flog' = Append(flog, "ok")
    /\ fresult' = "payload"
    /\ fpc' = "returned"
    /\ UNCHANGED <<retries, slept, normVars, matchVars, mainVars>>

RequestNotFoundRetried ==
    /\ fpc = "loop" /\ attempt < retries
    /\ attempt' = attempt + 1
    /\ flog' = Append(flog, "http_404")
    /\ fpc' = "sleep"
    /\ UNCHANGED <<retries, slept, fresult, normVars, matchVars, mainVars>>

\* HTTPError with e.code == 404: return None
RequestNotFound ==
    /\ fpc = "loop" /\ attempt < retries
    /\ attempt' = attempt + 1
    /\ flog' = Append(flog, "http_404")
    /\ fresult' = "None"
    /\ fpc' = "returned"
    /\ UNCHANGED <<retries, slept, normVars, matchVars, mainVars>>

\* the three handlers that print and fall through to time.sleep(1):
\* HTTPError with another code, URLError, any other Exception
RetryableFailures == {"http_error", "url_error", "error"}

RequestFails ==
    /\ fpc = "loop" /\ attempt < retries
    /\ \E failure \in RetryableFailures : flog' = Append(flog, failure)
    /\ attempt' = attempt + 1
    /\ fpc' = "sleep"
    /\ UNCHANGED <<retries, slept, fresult, normVars, matchVars, mainVars>>

\* time.sleep(1)
Sleep ==
    /\ fpc = "sleep"
    /\ slept' = slept + 1
    /\ fpc' = "loop"
    /\ UNCHANGED <<retries, attempt, flog, fresult, normVars, matchVars, mainVars>>

\* range(retries) is exhausted: return None
Exhausted ==
    /\ fpc = "loop" /\ attempt >= retries
    /\ fresult' = "None"
    /\ fpc' = "returned"
    /\ UNCHANGED <<retries, attempt, flog, slept, normVars, matchVars, mainVars>>

NextFetch == RequestOk \/ RequestNotFound \/ RequestFails \/ Sleep \/ Exhausted

-----------------------------------------------------------------------------
(* Python dicts keep insertion order: a dict is a sequence of [key, val]   *)
(* records with distinct keys.                                             *)

Keys(d) == {d[i].key : i \in 1..Len(d)}

KeyIn(k, d) == \E i \in 1..Len(d) : d[i].key = k

\* d[k]
Get(d, k) == d[CHOOSE i \in 1..Len(d) : d[i].key = k].val

\* d[k] = v: an existing key keeps its position
Put(d, k, v) ==
    IF KeyIn(k, d)
    THEN [i \in 1..Len(d) |-> IF d[i].key = k THEN [key |-> k, val |-> v] ELSE d[i]]
    ELSE Append(d, [key |-> k, val |-> v])

\* Python evaluates an argument before the call: so is an accumulator here
Eager(acc) == DOMAIN acc = DOMAIN acc

-----------------------------------------------------------------------------
(* match_model *)

\* s.split("/")[-1]
LastSegment(s) == LET segs == Split(s, "/") IN segs[Len(segs)]

PartialMatchOneWay(model_name_normalized, ze_id) ==
    Contains(ze_id, model_name_normalized)

\* line 295: model_name_normalized in ze_id or ze_id in model_name_normalized
PartialMatch(model_name_normalized, ze_id) ==
    Contains(ze_id, model_name_normalized) \/ Contains(model_name_normalized, ze_id)

\* lines 290-296: the position of the first key the scan returns, 0 when none
PartialScan(openrouter_id, zeroeval_scores) ==
    IF Contains(openrouter_id, "/")
    THEN LET model_name == LastSegment(openrouter_id)
             model_name_normalized == normalize_model_id(model_name)
             hits == {i \in 1..Len(zeroeval_scores) :
                         PartialMatch(model_name_normalized, zeroeval_scores[i].key)}
         IN  IF hits = {} THEN 0
             ELSE CHOOSE i \in hits : \A j \in hits : i <= j
    ELSE 0

match_model(openrouter_id, zeroeval_scores) ==
    LET normalized == normalize_model_id(openrouter_id)
        partial == PartialScan(openrouter_id, zeroeval_scores)
    IN  IF KeyIn(openrouter_id, zeroeval_scores)
        THEN Some(Get(zeroeval_scores, openrouter_id))
        ELSE IF KeyIn(normalized, zeroeval_scores)
        THEN Some(Get(zeroeval_scores, normalized))
        ELSE IF partial # 0
        THEN Some(zeroeval_scores[partial].val)
        ELSE None

-----------------------------------------------------------------------------
(* Specification SpecMatch: one call of match_model, a step per tier;      *)
(* consulted lists the tiers the call has evaluated.                       *)

MaxIndex == 3

MatchTargets ==
    {"anthropic/claude-sonnet-4.5", "anthropic/claude-3-5-sonnet-20241022",
     "openai/gpt-4o-mini", "gpt-4o-mini", "OpenAI/GPT-4o"}

MatchKeys ==
    {"anthropic/claude-sonnet-4.5", "anthropic/claude-3-5-sonnet-20241022",
     "anthropic/claude-3-5-sonnet", "gpt-4o", "gpt-4o-mini-2024-07-18",
     "openai/gpt-4o"}

\* the entry stored under a key: distinct keys hold distinct entries
EntryOf(k) == <<[key |-> "code", val |-> <<[key |-> k, val |-> 1]>>]>>

MatchIndexes ==
    {[i \in 1..Len(ks) |-> [key |-> ks[i], val |-> EntryOf(ks[i])]] :
        ks \in {s \in UNION {[1..n -> MatchKeys] : n \in 0..MaxIndex} :
                   \A i, j \in 1..Len(s) : i # j => s[i] # s[j]}}

IdleMatch ==
    /\ mpc = "idle" /\ target = "" /\ index = <<>>
    /\ mresult = None /\ consulted = <<>>

InitMatch ==
    /\ mpc = "exact"
    /\ target \in MatchTargets
    /\ index \in MatchIndexes
    /\ mresult = None
    /\ consulted = <<>>

\* lines 281-282
MatchExact ==
    /\ mpc = "exact"
    /\ consulted' = Append(consulted, "exact")
    /\ IF KeyIn(target, index)
       THEN mresult' = Some(Get(index, target)) /\ mpc' = "returned"
       ELSE mresult' = mresult /\ mpc' = "normalized"
    /\ UNCHANGED <<target, index, normVars, fetchVars, mainVars>>

\* lines 285-287
MatchNormalized ==
    /\ mpc = "normalized"
    /\ consulted' = Append(consulted, "normalized")
    /\ IF KeyIn(normalize_model_id(target), index)
       THEN mresult' = Some(Get(index, normalize_model_id(target))) /\ mpc' = "returned"
       ELSE mresult' = mresult /\ mpc' = "partial"
    /\ UNCHANGED <<target, index, normVars, fetchVars, mainVars>>

\* lines 290-298
MatchPartial ==
    /\ mpc = "partial"
    /\ consulted' = Append(consulted, "partial")
    /\ mresult' = IF PartialScan(target, index) # 0
                  THEN Some(index[PartialScan(target, index)].val)
                  ELSE None
    /\ mpc' = "returned"
    /\ UNCHANGED <<target, index, normVars, fetchVars, mainVars>>

NextMatch == MatchExact \/ MatchNormalized \/ MatchPartial

-----------------------------------------------------------------------------
(* The regular expressions of MODEL_FAMILY_PATTERNS and extract_version.   *)
(* Every pattern is a literal prefix, optionally the version group (one or *)
(* more digits, an optional dot, any digits) and a literal suffix, and     *)
(* optionally an end anchor and a negative lookahead.  The end anchor also *)
(* matches before a final newline; identifiers hold no newline here.       *)

\* s is matched in full by \d+\.?\d*
IsNum(s) ==
    /\ Len(s) > 0
    /\ Ch(s, 1) \in Digits
    /\ \A i \in 1..Len(s) : Ch(s, i) \in Digits \cup {"."}
    /\ Cardinality({i \in 1..Len(s) : Ch(s, i) = "."}) <= 1

Rule(pre, ver, post, end, neg, family, tier) ==
    [pre |-> pre, ver |-> ver, post |-> post, end |-> end, neg |-> neg,
     family |-> family, tier |-> tier]

Num(pre, post, family, tier) == Rule(pre, TRUE, post, TRUE, "", family, tier)

Exact(lit, family, tier) == Rule(lit, FALSE, "", TRUE, "", family, tier)

Prefix(lit, family, tier) == Rule(lit, FALSE, "", FALSE, "", family, tier)

MODEL_FAMILY_PATTERNS == <<
    Num("anthropic/claude-opus-", "", "claude-opus", "flagship"),
    Num("anthropic/claude-", "-opus", "claude-opus", "flagship"),
    Num("anthropic/claude-sonnet-", "", "claude-sonnet", "mid"),
    Num("anthropic/claude-", "-sonnet", "claude-sonnet", "mid"),
    Num("anthropic/claude-haiku-", "", "claude-haiku", "fast"),
    Num("anthropic/claude-", "-haiku", "claude-haiku", "fast"),
    Exact("openai/gpt-4.1", "gpt-4", "mid"),
    Exact("openai/gpt-4o", "gpt-4", "mid"),
    Prefix("openai/gpt-4-turbo", "gpt-4", "mid"),
    Exact("openai/gpt-4.1-mini", "gpt-4-mini", "fast"),
    Exact("openai/gpt-4o-mini", "gpt-4-mini", "fast"),
    Exact("openai/o1", "o1", "flagship"),
    Prefix("openai/o1-preview", "o1", "flagship"),
    Prefix("openai/o1-mini", "o1-mini", "mid"),
    Prefix("openai/o3-mini", "o3-mini", "mid"),
    Rule("google/gemini-", TRUE, "-pro", FALSE, "", "gemini-pro", "mid"),
    Prefix("google/gemini-pro", "gemini-pro", "mid"),
    Rule("google/gemini-", TRUE, "-flash", FALSE, "-lite", "gemini-flash", "fast"),
    Prefix("google/gemini-flash", "gemini-flash", "fast"),
    Prefix("deepseek/deepseek-chat", "deepseek-chat", "mid"),
    Prefix("deepseek/deepseek-coder", "deepseek-coder", "mid"),
    Exact("deepseek/deepseek-r1", "deepseek-r1", "flagship"),
    Prefix("mistralai/mistral-large", "mistral-large", "mid"),
    Prefix("mistralai/mistral-medium", "mistral-medium", "mid"),
    Prefix("mistralai/mistral-small", "mistral-small", "fast"),
    Prefix("meta-llama/llama-3.3-70b", "llama-3-70b", "mid"),
    Prefix("meta-llama/llama-3.2-90b", "llama-3-90b", "mid"),
    Prefix("meta-llama/llama-3.1-405b", "llama-3-405b", "flagship"),
    Prefix("qwen/qwen-2.5-72b", "qwen-72b", "mid"),
    Prefix("qwen/qwq-32b", "qwq", "mid") >>

\* re.match(pattern, model_id) finds a match
ReMatch(rule, model_id) ==
    /\ StartsWith(model_id, rule.pre)
    /\ IF rule.ver
       THEN \E k \in (Len(rule.pre) + 1)..Len(model_id) :
               /\ IsNum(SubSeq(model_id, Len(rule.pre) + 1, k))
               /\ LET rest == Drop(model_id, k)
                  IN  /\ StartsWith(rest, rule.post)
                      /\ rule.end => rest = rule.post
                      /\ rule.neg # "" =>
                            ~StartsWith(Drop(rest, Len(rule.post)), rule.neg)
       ELSE rule.end => model_id = rule.pre

-----------------------------------------------------------------------------
(* extract_version.  A version is the exact decimal num/den of the float.  *)

DigitVal(c) == CHOOSE d \in 0..9 : Ch("0123456789", d + 1) = c

RECURSIVE IntOf(_)
IntOf(s) ==
    IF Len(s) = 0 THEN 0
    ELSE IntOf(SubSeq(s, 1, Len(s) - 1)) * 10 + DigitVal(Ch(s, Len(s)))

RECURSIVE Pow10(_)
Pow10(n) == IF n = 0 THEN 1 ELSE 10 * Pow10(n - 1)

\* float(match.group(1)) for a group matched by \d+\.?\d*
Float(s) ==
    IF \E i \in 1..Len(s) : Ch(s, i) = "."
    THEN LET dot == CHOOSE i \in 1..Len(s) : Ch(s, i) = "."
             frac == Drop(s, dot)
         IN  [num |-> IntOf(SubSeq(s, 1, dot - 1) \o frac), den |-> Pow10(Len(frac))]
    ELSE [num |-> IntOf(s), den |-> 1]

VLt(a, b) == a.num * b.den < b.num * a.den

VEq(a, b) == a.num * b.den = b.num * a.den

MinOf(S) == CHOOSE i \in S : \A j \in S : i <= j

MaxOf(S) == CHOOSE i \in S : \A j \in S : i >= j

\* re.search(r"-(\d+\.?\d*)-", s).group(1), "" without a match (a matched
\* group holds a digit)
GroupBetweenHyphens(s) ==
    LET starts == {i \in 1..Len(s) :
                      /\ Ch(s, i) = "-"
                      /\ \E j \in (i + 2)..Len(s) :
                            Ch(s, j) = "-" /\ IsNum(SubSeq(s, i + 1, j - 1))}
    IN  IF starts = {} THEN ""
        ELSE LET i == MinOf(starts)
                 j == CHOOSE j \in (i + 2)..Len(s) :
                         Ch(s, j) = "-" /\ IsNum(SubSeq(s, i + 1, j - 1))
             IN  SubSeq(s, i + 1, j - 1)

\* re.search(r"-(\d+\.?\d*)$", s).group(1)
GroupAfterHyphenAtEnd(s) ==
    LET starts == {i \in 1..Len(s) : Ch(s, i) = "-" /\ IsNum(Drop(s, i))}
    IN  IF starts = {} THEN "" ELSE Drop(s, MinOf(starts))

\* re.search(r"(\d+\.?\d*)$", s).group(1)
GroupAtEnd(s) ==
    LET starts == {i \in 1..Len(s) : IsNum(Drop(s, i - 1))}
    IN  IF starts = {} THEN "" ELSE Drop(s, MinOf(starts) - 1)

IsLowerAlpha(s) ==
    Len(s) > 0 /\ \A i \in 1..Len(s) : \E k \in 1..Len(LowerCase) : Ch(LowerCase, k) = Ch(s, i)

\* re.search(r"/[a-z]+-(\d+\.?\d*)", s).group(1): the group is greedy
GroupAfterSlashWord(s) ==
    LET starts == {i \in 1..Len(s) :
                      /\ Ch(s, i) = "/"
                      /\ \E h \in (i + 2)..Len(s) :
                            /\ IsLowerAlpha(SubSeq(s, i + 1, h - 1))
                            /\ Ch(s, h) = "-"
                            /\ \E k \in (h + 1)..Len(s) : IsNum(SubSeq(s, h + 1, k))}
    IN  IF starts = {} THEN ""
        ELSE LET i == MinOf(starts)
                 h == CHOOSE h \in (i + 2)..Len(s) :
                         IsLowerAlpha(SubSeq(s, i + 1, h - 1)) /\ Ch(s, h) = "-"
                 k == MaxOf({k \in (h + 1)..Len(s) : IsNum(SubSeq(s, h + 1, k))})
             IN  SubSeq(s, h + 1, k)

\* the version float of extract_version(model_id); the first pattern that
\* matches governs, and (0.0, model_id) is the fallback
extract_version(model_id) ==
    IF GroupBetweenHyphens(model_id) # "" THEN Float(GroupBetweenHyphens(model_id))
    ELSE IF GroupAfterHyphenAtEnd(model_id) # "" THEN Float(GroupAfterHyphenAtEnd(model_id))
    ELSE IF GroupAtEnd(model_id) # "" THEN Float(GroupAtEnd(model_id))
    ELSE IF GroupAfterSlashWord(model_id) # "" THEN Float(GroupAfterSlashWord(model_id))
    ELSE [num |-> 0, den |-> 1]

-----------------------------------------------------------------------------
(* infer_model_families *)

FirstMatchLeaky(model_id, i) ==
    LET hits == {r \in i..Len(MODEL_FAMILY_PATTERNS) :
                    ReMatch(MODEL_FAMILY_PATTERNS[r], model_id)}
    IN  IF hits = {} THEN Len(MODEL_FAMILY_PATTERNS)
        ELSE CHOOSE r \in hits : \A q \in hits : r <= q

\* the loop of lines 226-231 from rule i on: the rule at which it breaks,
\* 0 when it runs to the end
FirstMatch(model_id, i) ==
    LET hits == {r \in i..Len(MODEL_FAMILY_PATTERNS) :
                    ReMatch(MODEL_FAMILY_PATTERNS[r], model_id)}
    IN  IF hits = {} THEN 0
        ELSE CHOOSE r \in hits : \A q \in hits : r <= q

\* model.get("id", "")
ModelId(model) == IF "id" \in DOMAIN model THEN model.id ELSE ""

RECURSIVE GroupModels(_, _)
\* lines 220-231: families (family_name -> list of (model_id, version)) and
\* family_tiers, filled in catalog order
GroupModels(models, acc) ==
    IF Eager(acc) /\ Len(models) = 0 THEN acc
    ELSE LET model_id == ModelId(models[1])
             r == FirstMatch(model_id, 1)
         IN  IF r = 0 THEN GroupModels(Tail(models), acc)
             ELSE LET family_name == MODEL_FAMILY_PATTERNS[r].family
                      tier == MODEL_FAMILY_PATTERNS[r].tier
                      members == IF KeyIn(family_name, acc.families)
                                 THEN Get(acc.families, family_name)
                                 ELSE <<>>
                      entry == [id |-> model_id, version |-> extract_version(model_id)]
                  IN  GroupModels(Tail(models),
                        [families |-> Put(acc.families, family_name, Append(members, entry)),
                         family_tiers |-> Put(acc.family_tiers, family_name, tier)])

RECURSIVE InsertTiesFirst(_, _)
InsertTiesFirst(sorted, m) ==
    IF Len(sorted) = 0 THEN <<m>>
    ELSE IF ~VLt(m.version, sorted[1].version) THEN <<m>> \o sorted
    ELSE <<sorted[1]>> \o InsertTiesFirst(Tail(sorted), m)

RECURSIVE Insert(_, _)
\* m placed behind every element whose version is not below its own
Insert(sorted, m) ==
    IF Len(sorted) = 0 THEN <<m>>
    ELSE IF VLt(sorted[1].version, m.version) THEN <<m>> \o sorted
    ELSE <<sorted[1]>> \o Insert(Tail(sorted), m)

RECURSIVE SortedByVersionDesc(_)
\* sorted(members, key=lambda x: x[1], reverse=True): stable, so elements of
\* equal version keep their order
SortedByVersionDesc(members) ==
    IF Len(members) = 0 THEN <<>>
    ELSE Insert(SortedByVersionDesc(SubSeq(members, 1, Len(members) - 1)),
                members[Len(members)])

infer_model_families(models) ==
    LET grouped == GroupModels(models, [families |-> <<>>, family_tiers |-> <<>>])
        result(i) ==
            LET family_name == grouped.families[i].key
                sorted_members == SortedByVersionDesc(grouped.families[i].val)
                member_ids == [k \in 1..Len(sorted_members) |-> sorted_members[k].id]
            IN  [key |-> family_name,
                 val |-> [latest |-> member_ids[1],
                          members |-> member_ids,
                          tier |-> IF KeyIn(family_name, grouped.family_tiers)
                                   THEN Get(grouped.family_tiers, family_name)
                                   ELSE "mid"]]
    IN  [i \in 1..Len(grouped.families) |-> result(i)]

-----------------------------------------------------------------------------
(* generate_aliases *)

MemberAliasesUnguarded(acc, member, latest) ==
    LET full == Put(acc, member, latest)
    IN  IF Contains(member, "/") THEN Put(full, LastSegment(member), latest) ELSE full

MemberAliasesShortToMember(acc, member, latest) ==
    IF member # latest
    THEN LET full == Put(acc, member, latest)
         IN  IF Contains(member, "/") THEN Put(full, LastSegment(member), member) ELSE full
    ELSE acc

\* lines 326-332: the aliases one member adds
MemberAliases(acc, member, latest) ==
    IF member # latest
    THEN LET full == Put(acc, member, latest)
         IN  IF Contains(member, "/") THEN Put(full, LastSegment(member), latest) ELSE full
    ELSE acc

RECURSIVE MembersAliases(_, _, _)
MembersAliases(acc, members, latest) ==
    IF Eager(acc) /\ Len(members) = 0 THEN acc
    ELSE MembersAliases(MemberAliases(acc, members[1], latest), Tail(members), latest)

\* lines 338-352: the colloquial names of the curated families
Variations(family_name) ==
    CASE family_name = "claude-sonnet" -> <<"sonnet", "claude sonnet">>
      [] family_name = "claude-haiku"  -> <<"haiku", "claude haiku">>
      [] family_name = "claude-opus"   -> <<"opus", "claude opus">>
      [] family_name = "gpt-4"         -> <<"gpt4", "gpt-4o">>
      [] family_name = "gpt-4-mini"    -> <<"gpt4-mini", "gpt-4o-mini">>
      [] OTHER                         -> <<>>

RECURSIVE PutAll(_, _, _)
PutAll(acc, keys, v) ==
    IF Eager(acc) /\ Len(keys) = 0 THEN acc ELSE PutAll(Put(acc, keys[1], v), Tail(keys), v)

\* lines 320-352 for one family
FamilyAliases(acc, family_name, family_info) ==
    LET latest == family_info.latest
        with_members == MembersAliases(acc, family_info.members, latest)
        with_name == Put(with_members, family_name, latest)
    IN  PutAll(with_name, Variations(family_name), latest)

RECURSIVE AliasesFrom(_, _)
AliasesFrom(acc, fams) ==
    IF Eager(acc) /\ Len(fams) = 0 THEN acc
    ELSE AliasesFrom(FamilyAliases(acc, fams[1].key, fams[1].val), Tail(fams))

generate_aliases(fams) == AliasesFrom(<<>>, fams)

-----------------------------------------------------------------------------
(* The two catalogs main() fetches.                                        *)

KEY_BENCHMARKS == <<
    [key |-> "code", val |-> <<"swe-bench-verified", "humaneval", "livecodebench",
        "aider-polyglot", "bigcodebench", "codeforces", "mbpp">>],
    [key |-> "math", val |-> <<"aime-2025", "aime-2024", "math-500", "gsm8k",
        "minerva-math", "gpqa-diamond", "olympiadbench">>],
    [key |-> "reasoning", val |-> <<"gpqa", "mmlu-pro", "mmlu", "arc-challenge",
        "hellaswag", "winogrande", "commonsenseqa">>],
    [key |-> "tool_calling", val |-> <<"bfcl", "tau-bench", "acebench", "nexusraven",
        "gorilla-api-bench">>],
    [key |-> "long_context", val |-> <<"ruler", "longbench", "infinitebench",
        "scrolls", "loogle">>],
    [key |-> "general", val |-> <<"ifeval", "arena-hard", "alpaca-eval-2", "mt-bench",
        "chatbot-arena">>] >>

RAW_FILE == "openrouter_models_raw.json"

BENCH_FILE == "llm_stats_benchmarks.json"

OUTPUT_FILE == "models_with_benchmarks.json"

MaxCatalog == 2

\* provider-catalog records: with and without a family rule, with and without
\* an "id" key
MainModels ==
    {[id |-> "openai/gpt-4o"], [id |-> "openai/gpt-4o-mini"],
     [id |-> "anthropic/claude-3-5-sonnet-20240620"],
     [id |-> "mistralai/mixtral-8x7b"], [name |-> "unnamed"]}

MainCatalogs == UNION {[1..n -> MainModels] : n \in 0..MaxCatalog}

\* what fetch_json returns for the provider catalog: None, a payload without
\* "data", or {"data": models}
ProviderResponses ==
    {None, Some([error |-> "rate limited"])} \cup {Some([data |-> c]) : c \in MainCatalogs}

\* the benchmark service: the ids of /leaderboard/benchmarks, and per scored
\* model whether it is scored nowhere, in swe-bench-verified only, or in
\* every benchmark the service holds
Listing == <<"swe-bench-verified", "aime-2025", "gpqa-diamond", "bfcl-v3", "ruler", "ifeval">>

ScoredIds == <<"gpt-4o", "anthropic/claude-3-5-sonnet-20241022", "mistralai/mixtral-8x7b">>

Coverages == <<{"none", "code", "all"}, {"none", "all"}, {"none", "all"}>>

Servers ==
    {[available |-> TRUE, cov |-> c] :
        c \in {f \in [1..Len(ScoredIds) -> {"none", "code", "all"}] :
                  \A i \in 1..Len(ScoredIds) : f[i] \in Coverages[i]}}
        \cup {[available |-> FALSE, cov |-> [i \in 1..Len(ScoredIds) |-> "none"]]}

NoServer == [available |-> FALSE, cov |-> <<>>]

Covered(srv, i, benchmark_id) ==
    \/ srv.cov[i] = "all"
    \/ srv.cov[i] = "code" /\ benchmark_id = "swe-bench-verified"

\* scores in units of 0.0001, even so that the mean of two is exact
ScoreOf(i, benchmark_id) ==
    LET b == CHOOSE k \in 1..Len(Listing) : Listing[k] = benchmark_id
    IN  5000 + 1000 * i + 110 * b

\* the payload of /leaderboard/benchmarks/<id>, None on a 404; the ruler
\* leaderboard also lists an entry without a score
ServedScores(srv, benchmark_id) ==
    IF srv.available /\ \E k \in 1..Len(Listing) : Listing[k] = benchmark_id
    THEN LET scored == SelectSeq([i \in 1..Len(ScoredIds) |-> i],
                                 LAMBDA i : Covered(srv, i, benchmark_id))
         IN Some([benchmark_id |-> benchmark_id,
          models |->
            [k \in 1..Len(scored) |->
                [model_id |-> ScoredIds[scored[k]],
                 score |-> ScoreOf(scored[k], benchmark_id)]]
            \o (IF benchmark_id = "ruler"
                THEN <<[model_id |-> "unscored-model"]>>
                ELSE <<>>)])
    ELSE None

\* fetch_openrouter_models on what fetch_json returned
fetch_openrouter_models(data) ==
    IF ~IsNone(data) /\ "data" \in DOMAIN The(data) THEN The(data).data ELSE <<>>

\* fetch_all_benchmarks
fetch_all_benchmarks(srv) ==
    IF srv.available
    THEN [k \in 1..Len(Listing) |-> [benchmark_id |-> Listing[k]]]
    ELSE <<>>

\* fetch_benchmark_scores
fetch_benchmark_scores(srv, benchmark_id) == ServedScores(srv, benchmark_id)

\* lines 410-420: the exact id, else the first listed id in a substring
\* relation with it whose fetch returns data
ResolveBenchmark(srv, benchmark_lookup, bench_id) ==
    LET data == fetch_benchmark_scores(srv, bench_id)
    IN
    IF ~IsNone(data)
    THEN [id |-> bench_id, data |-> data]
    ELSE LET found == {k \in 1..Len(benchmark_lookup) :
                          /\ \/ Contains(benchmark_lookup[k], bench_id)
                             \/ Contains(bench_id, benchmark_lookup[k])
                          /\ ~IsNone(fetch_benchmark_scores(srv, benchmark_lookup[k]))}
         IN  IF found = {} THEN [id |-> bench_id, data |-> None]
             ELSE [id |-> benchmark_lookup[MinOf(found)],
                   data |-> fetch_benchmark_scores(srv, benchmark_lookup[MinOf(found)])]

RECURSIVE FetchCategory(_, _, _, _)
\* lines 408-429 for one category
FetchCategory(srv, benchmark_lookup, benchmark_ids, acc) ==
    IF Eager(acc) /\ Len(benchmark_ids) = 0 THEN acc
    ELSE LET r == ResolveBenchmark(srv, benchmark_lookup, benchmark_ids[1])
         IN  FetchCategory(srv, benchmark_lookup, Tail(benchmark_ids),
                           IF ~IsNone(r.data) THEN Put(acc, r.id, The(r.data)) ELSE acc)

-----------------------------------------------------------------------------
(* build_model_score_map and calculate_category_averages *)

\* model_scores[model_id][category][benchmark_id] = score on nested
\* defaultdicts
PutScore(model_scores_, model_id, category, benchmark_id, score) ==
    LET by_category == IF KeyIn(model_id, model_scores_)
                       THEN Get(model_scores_, model_id) ELSE <<>>
        by_benchmark == IF KeyIn(category, by_category)
                        THEN Get(by_category, category) ELSE <<>>
    IN  Put(model_scores_, model_id,
            Put(by_category, category, Put(by_benchmark, benchmark_id, score)))

RECURSIVE ScoreModels(_, _, _, _)
\* lines 263-273
ScoreModels(acc, category, benchmark_id, models) ==
    IF Eager(acc) /\ Len(models) = 0 THEN acc
    ELSE LET model == models[1]
             \* model.get("model_id", "")
             model_id == IF "model_id" \in DOMAIN model THEN model.model_id ELSE ""
             normalized == normalize_model_id(model_id)
             raw == PutScore(acc, model_id, category, benchmark_id, model.score)
         IN  ScoreModels(
                \* model.get("score") is None when the entry has no score
                IF model_id # "" /\ "score" \in DOMAIN model
                THEN IF normalized # model_id
                     THEN PutScore(raw, normalized, category, benchmark_id, model.score)
                     ELSE raw
                ELSE acc,
                category, benchmark_id, Tail(models))

RECURSIVE ScoreBenchmarks(_, _, _)
\* lines 259-273
ScoreBenchmarks(acc, category, benchmarks) ==
    IF Eager(acc) /\ Len(benchmarks) = 0 THEN acc
    ELSE LET benchmark_info == benchmarks[1].val
         IN  ScoreBenchmarks(
                IF "models" \in DOMAIN benchmark_info
                THEN ScoreModels(acc, category, benchmarks[1].key, benchmark_info.models)
                ELSE acc,
                category, Tail(benchmarks))

RECURSIVE ScoreCategories(_, _)
ScoreCategories(acc, data) ==
    IF Eager(acc) /\ Len(data) = 0 THEN acc
    ELSE ScoreCategories(ScoreBenchmarks(acc, data[1].key, data[1].val), Tail(data))

build_model_score_map(data) == ScoreCategories(<<>>, data)

RECURSIVE Sum(_)
Sum(benchmarks) ==
    IF Len(benchmarks) = 0 THEN 0 ELSE benchmarks[1].val + Sum(Tail(benchmarks))

\* round(total / n, 4) on scores in units of 0.0001: to the nearest unit.
\* On a tie the float decides; the served scores have no ties, and the even
\* unit stands for it
RoundedMean(total, n) ==
    LET q == total \div n
        r == total % n
    IN  IF 2 * r > n \/ (2 * r = n /\ q % 2 = 1) THEN q + 1 ELSE q

RECURSIVE calculate_category_averages(_)
calculate_category_averages(scores) ==
    IF Len(scores) = 0 THEN <<>>
    ELSE LET benchmarks == scores[1].val
             rest == calculate_category_averages(Tail(scores))
         IN  IF Len(benchmarks) > 0
             THEN <<[key |-> scores[1].key,
                     val |-> RoundedMean(Sum(benchmarks), Len(benchmarks))]>> \o rest
             ELSE rest

-----------------------------------------------------------------------------
(* main(): a step per statement group; pc names the next one.  sys.exit(1) *)
(* leaves pc at "exit_no_models" or "exit_no_benchmarks".  files holds the *)
(* names of the files written so far.                                      *)

IdleMain ==
    /\ pc = "idle" /\ catalog = <<>> /\ families = <<>> /\ aliases = <<>>
    /\ files = {} /\ server = NoServer /\ all_benchmarks = <<>>
    /\ benchmarks_data = <<>> /\ model_scores = <<>> /\ merged_models = <<>>
    /\ matched_count = 0 /\ output = None

InitMain ==
    /\ pc = "start" /\ catalog = <<>> /\ families = <<>> /\ aliases = <<>>
    /\ files = {} /\ server = NoServer /\ all_benchmarks = <<>>
    /\ benchmarks_data = <<>> /\ model_scores = <<>> /\ merged_models = <<>>
    /\ matched_count = 0 /\ output = None

\* lines 363-366
FetchModels ==
    /\ pc = "start"
    /\ \E data \in ProviderResponses :
          /\ catalog' = fetch_openrouter_models(data)
          /\ pc' = IF Len(fetch_openrouter_models(data)) = 0
                   THEN "exit_no_models" ELSE "save_raw"
    /\ UNCHANGED <<families, aliases, files, server, all_benchmarks, benchmarks_data,
                   model_scores, merged_models, matched_count, output,
                   normVars, fetchVars, matchVars>>

\* lines 369-372
SaveRaw ==
    /\ pc = "save_raw"
    /\ files' = files \cup {RAW_FILE}
    /\ pc' = "infer"
    /\ UNCHANGED <<catalog, families, aliases, server, all_benchmarks, benchmarks_data,
                   model_scores, merged_models, matched_count, output,
                   normVars, fetchVars, matchVars>>

\* line 376
InferFamilies ==
    /\ pc = "infer"
    /\ families' = infer_model_families(catalog)
    /\ pc' = "aliases"
    /\ UNCHANGED <<catalog, aliases, files, server, all_benchmarks, benchmarks_data,
                   model_scores, merged_models, matched_count, output,
                   normVars, fetchVars, matchVars>>

\* line 382
GenerateAliases ==
    /\ pc = "aliases"
    /\ aliases' = generate_aliases(families)
    /\ pc' = "fetch_benchmarks"
    /\ UNCHANGED <<catalog, families, files, server, all_benchmarks, benchmarks_data,
                   model_scores, merged_models, matched_count, output,
                   normVars, fetchVars, matchVars>>

FetchBenchmarksSavingFirst ==
    /\ pc = "fetch_benchmarks"
    /\ \E srv \in Servers :
          /\ server' = srv
          /\ all_benchmarks' = fetch_all_benchmarks(srv)
          /\ pc' = IF Len(fetch_all_benchmarks(srv)) = 0
                   THEN "exit_no_benchmarks" ELSE "fetch_scores"
    /\ files' = files \cup {BENCH_FILE}
    /\ UNCHANGED <<catalog, families, aliases, benchmarks_data,
                   model_scores, merged_models, matched_count, output,
                   normVars, fetchVars, matchVars>>

\* lines 386-389
FetchBenchmarks ==
    /\ pc = "fetch_benchmarks"
    /\ \E srv \in Servers :
          /\ server' = srv
          /\ all_benchmarks' = fetch_all_benchmarks(srv)
          /\ pc' = IF Len(fetch_all_benchmarks(srv)) = 0
                   THEN "exit_no_benchmarks" ELSE "save_benchmarks"
    /\ UNCHANGED <<catalog, families, aliases, files, benchmarks_data,
                   model_scores, merged_models, matched_count, output,
                   normVars, fetchVars, matchVars>>

\* lines 392-395
SaveBenchmarks ==
    /\ pc = "save_benchmarks"
    /\ files' = files \cup {BENCH_FILE}
    /\ pc' = "fetch_scores"
    /\ UNCHANGED <<catalog, families, aliases, server, all_benchmarks, benchmarks_data,
                   model_scores, merged_models, matched_count, output,
                   normVars, fetchVars, matchVars>>

RECURSIVE FetchCategories(_, _, _, _)
FetchCategories(srv, benchmark_lookup, categories, acc) ==
    IF Eager(acc) /\ Len(categories) = 0 THEN acc
    ELSE FetchCategories(srv, benchmark_lookup, Tail(categories),
            Put(acc, categories[1].key,
                FetchCategory(srv, benchmark_lookup, categories[1].val, <<>>)))

\* lines 398-429: the loop over KEY_BENCHMARKS
FetchScores ==
    /\ pc = "fetch_scores"
    /\ LET benchmark_lookup == [k \in 1..Len(all_benchmarks) |-> all_benchmarks[k].benchmark_id]
       IN  benchmarks_data' = FetchCategories(server, benchmark_lookup, KEY_BENCHMARKS, <<>>)
    /\ pc' = "build_map"
    /\ UNCHANGED <<catalog, families, aliases, files, server, all_benchmarks,
                   model_scores, merged_models, matched_count, output,
                   normVars, fetchVars, matchVars>>

\* line 433
BuildScoreMap ==
    /\ pc = "build_map"
    /\ model_scores' = build_model_score_map(benchmarks_data)
    /\ pc' = "merge"
    /\ UNCHANGED <<catalog, families, aliases, files, server, all_benchmarks,
                   benchmarks_data, merged_models, matched_count, output,
                   normVars, fetchVars, matchVars>>

\* model.get("name", "")
ModelName(model) == IF "name" \in DOMAIN model THEN model.name ELSE ""

\* lines 442-456 and 458-460: the merged record of one model
MergedRecord(model, scores) ==
    LET truthy == ~IsNone(scores) /\ Len(The(scores)) > 0
    IN  [id |-> ModelId(model),
         name |-> ModelName(model),
         benchmarks |-> IF truthy THEN scores ELSE None,
         category_scores |-> IF truthy
                             THEN Some(calculate_category_averages(The(scores)))
                             ELSE None]

MergeModelCountingAll ==
    /\ pc = "merge" /\ Len(merged_models) < Len(catalog)
    /\ LET model == catalog[Len(merged_models) + 1]
           merged == MergedRecord(model, match_model(ModelId(model), model_scores))
       IN  /\ merged_models' = Append(merged_models, merged)
           /\ matched_count' = matched_count + 1
    /\ UNCHANGED <<pc, catalog, families, aliases, files, server, all_benchmarks,
                   benchmarks_data, model_scores, output,
                   normVars, fetchVars, matchVars>>

\* lines 441-463: one iteration of the merge loop
MergeModel ==
    /\ pc = "merge" /\ Len(merged_models) < Len(catalog)
    /\ LET model == catalog[Len(merged_models) + 1]
           merged == MergedRecord(model, match_model(ModelId(model), model_scores))
       IN  /\ merged_models' = Append(merged_models, merged)
           /\ matched_count' = IF ~IsNone(merged.benchmarks)
                               THEN matched_count + 1 ELSE matched_count
    /\ UNCHANGED <<pc, catalog, families, aliases, files, server, all_benchmarks,
                   benchmarks_data, model_scores, output,
                   normVars, fetchVars, matchVars>>

SaveOutputTotalOfMatched ==
    /\ pc = "merge" /\ Len(merged_models) = Len(catalog)
    /\ output' = Some([total_models |-> matched_count,
                       models_with_benchmarks |-> matched_count,
                       categories |-> [k \in 1..Len(KEY_BENCHMARKS) |-> KEY_BENCHMARKS[k].key],
                       families |-> families,
                       aliases |-> aliases,
                       models |-> merged_models])
    /\ files' = files \cup {OUTPUT_FILE}
    /\ pc' = "done"
    /\ UNCHANGED <<catalog, families, aliases, server, all_benchmarks,
                   benchmarks_data, model_scores, merged_models, matched_count,
                   normVars, fetchVars, matchVars>>

\* lines 468-481; generated_at, the wall-clock time, is left out
SaveOutput ==
    /\ pc = "merge" /\ Len(merged_models) = Len(catalog)
    /\ output' = Some([total_models |-> Len(merged_models),
                       models_with_benchmarks |-> matched_count,
                       categories |-> [k \in 1..Len(KEY_BENCHMARKS) |-> KEY_BENCHMARKS[k].key],
                       families |-> families,
                       aliases |-> aliases,
                       models |-> merged_models])
    /\ files' = files \cup {OUTPUT_FILE}
    /\ pc' = "done"
    /\ UNCHANGED <<catalog, families, aliases, server, all_benchmarks,
                   benchmarks_data, model_scores, merged_models, matched_count,
                   normVars, fetchVars, matchVars>>

main ==
    \/ FetchModels
    \/ SaveRaw
    \/ InferFamilies
    \/ GenerateAliases
    \/ FetchBenchmarks
    \/ SaveBenchmarks
    \/ FetchScores
    \/ BuildScoreMap
    \/ MergeModel
    \/ SaveOutput

Init == InitMain /\ IdleNorm /\ IdleFetch /\ IdleMatch

Next == main

Spec == Init /\ [][Next]_vars

-----------------------------------------------------------------------------
(* Specification SpecFamilies: the family and alias steps of main() on a   *)
(* catalog of identifiers that share families, tie on the version and      *)
(* collide on an alias.  It starts where main() has fetched and saved the  *)
(* catalog.                                                                *)

MaxFamilyCatalog == 3

FamilyModels ==
    {[id |-> "anthropic/claude-sonnet-4.5"],
     [id |-> "anthropic/claude-sonnet-4"], [id |-> "anthropic/claude-4-sonnet"],
     [id |-> "openai/gpt-4.1"], [id |-> "openai/gpt-4-turbo/o1"], [id |-> "openai/o1"],
     [id |-> "mistralai/mixtral-8x7b"]}

FamilyCatalogs == UNION {[1..n -> FamilyModels] : n \in 1..MaxFamilyCatalog}

InitFamilies ==
    /\ pc = "infer" /\ catalog \in FamilyCatalogs
    /\ families = <<>> /\ aliases = <<>>
    /\ files = {RAW_FILE} /\ server = NoServer /\ all_benchmarks = <<>>
    /\ benchmarks_data = <<>> /\ model_scores = <<>> /\ merged_models = <<>>
    /\ matched_count = 0 /\ output = None
    /\ IdleNorm /\ IdleFetch /\ IdleMatch

NextFamilies == InferFamilies \/ GenerateAliases

SpecFamilies == InitFamilies /\ [][NextFamilies]_vars

-----------------------------------------------------------------------------
(* The specifications of the single calls *)

InitNormOnly == InitNorm /\ IdleFetch /\ IdleMatch /\ IdleMain

SpecNorm == InitNormOnly /\ [][NextNorm]_vars

InitMatchOnly == InitMatch /\ IdleNorm /\ IdleFetch /\ IdleMain

SpecMatch == InitMatchOnly /\ [][NextMatch]_vars

InitFetchOnly == InitFetch /\ IdleNorm /\ IdleMatch /\ IdleMain

\* a call of fetch_json runs on: every request returns or raises (urlopen has
\* a 30 s timeout) and every sleep ends
SpecFetch == InitFetchOnly /\ [][NextFetch]_vars /\ WF_vars(NextFetch)

-----------------------------------------------------------------------------
(* Properties of normalize_model_id, under SpecNorm *)

EightDigits(p) == Len(p) = 8 /\ \A i \in 1..8 : Ch(p, i) \in Digits

\* s has a component between "-" separators that is eight digits
HasDateComponent(s) ==
    \E i \in 0..(Len(s) - 8) :
        /\ EightDigits(SubSeq(s, i + 1, i + 8))
        /\ i = 0 \/ Ch(s, i) = "-"
        /\ i + 8 = Len(s) \/ Ch(s, i + 9) = "-"

\* the lower-cased components of the input that are not eight digits
KeptParts ==
    SelectSeq([k \in 1..Len(nparts) |-> Lower(nparts[k])], LAMBDA p : ~EightDigits(p))

\* C8: normalize_model_id is idempotent; its result has no 8-digit component
\* and keeps every other component of the lower-cased input, in order
C8_NormalizeIdempotent ==
    /\ npc \in {"once", "twice"} => ny = Join(KeptParts, "-") /\ ~HasDateComponent(ny)
    /\ npc = "twice" => nz = ny

C8_Witness ==
    /\ npc = "twice"
    /\ nx = "20241022-12345678-Sonnet"
    /\ nz = "sonnet"

-----------------------------------------------------------------------------
(* Properties of fetch_json, under SpecFetch *)

Failed(i) == flog[i] \in {"http_error", "url_error", "error"}

FetchSafety ==
    /\ attempt <= retries
    /\ Len(flog) = attempt
    \* no request follows a success or a 404
    /\ \A i \in 1..(Len(flog) - 1) : Failed(i)
    \* every other failure is followed by one sleep of a second
    /\ slept = Cardinality({i \in 1..Len(flog) : Failed(i)}) - (IF fpc = "sleep" THEN 1 ELSE 0)
    /\ fpc = "sleep" => Failed(Len(flog))
    /\ fpc = "loop" => fresult = "pending"
    /\ fpc = "returned" =>
          IF attempt > 0 /\ flog[attempt] = "ok" THEN fresult = "payload"
          ELSE IF attempt > 0 /\ flog[attempt] = "http_404" THEN fresult = "None"
          ELSE attempt = retries /\ fresult = "None"

\* C9: fetch_json returns after at most `retries` requests: the payload at
\* the first success, None at once on a 404, None after `retries` failures,
\* with a one-second sleep after every other failure
C9_FetchTerminates == []FetchSafety /\ <>(fpc = "returned")

C9_Witness ==
    /\ fpc = "returned"
    /\ retries = DefaultRetries
    /\ attempt = DefaultRetries
    /\ slept = DefaultRetries
    /\ fresult = "None"

-----------------------------------------------------------------------------
(* Properties of match_model, under SpecMatch *)

\* the part of s after its last "/"
TrailingSegment(s) ==
    LET slashes == {i \in 1..Len(s) : Ch(s, i) = "/"}
    IN  IF slashes = {} THEN s ELSE Drop(s, MaxOf(slashes))

\* the positions of the keys that contain, or are contained in, the
\* normalized trailing segment of t
SubstringHits(t, idx) ==
    LET seg == normalize_model_id(TrailingSegment(t))
    IN  {i \in 1..Len(idx) : Contains(idx[i].key, seg) \/ Contains(seg, idx[i].key)}

\* C1: exact key, else normalized key, else (only with a "/") the first key
\* in a substring relation with the normalized trailing segment, else None;
\* no tier is evaluated after one succeeds
C1_ThreeTiers ==
    mpc = "returned" =>
        IF target \in Keys(index)
        THEN mresult = Some(EntryOf(target)) /\ consulted = <<"exact">>
        ELSE IF normalize_model_id(target) \in Keys(index)
        THEN /\ mresult = Some(EntryOf(normalize_model_id(target)))
             /\ consulted = <<"exact", "normalized">>
        ELSE /\ consulted = <<"exact", "normalized", "partial">>
             /\ IF Contains(target, "/") /\ SubstringHits(target, index) # {}
                THEN mresult = Some(index[MinOf(SubstringHits(target, index))].val)
                ELSE mresult = None

C1_Witness ==
    /\ mpc = "returned"
    /\ target = "openai/gpt-4o-mini"
    /\ Len(index) = 3
    /\ index[1].key = "anthropic/claude-sonnet-4.5"
    /\ index[2].key = "gpt-4o"
    /\ index[3].key = "gpt-4o-mini-2024-07-18"
    /\ mresult = Some(EntryOf("gpt-4o"))

-----------------------------------------------------------------------------
(* Properties of the families and aliases, under SpecFamilies *)

CatalogIds == [k \in 1..Len(catalog) |-> ModelId(catalog[k])]

Range(seq) == {seq[k] : k \in 1..Len(seq)}

\* the earliest-declared rule matching id, 0 when none matches
EarliestRule(id) ==
    LET matching == {r \in 1..Len(MODEL_FAMILY_PATTERNS) :
                        ReMatch(MODEL_FAMILY_PATTERNS[r], id)}
    IN  IF matching = {} THEN 0 ELSE MinOf(matching)

FamilyNameOf(id) ==
    IF EarliestRule(id) = 0 THEN "" ELSE MODEL_FAMILY_PATTERNS[EarliestRule(id)].family

SameVersion(a, b) == VEq(extract_version(a), extract_version(b))

\* C2: latest is the first member; members are in descending version order,
\* members of equal version in catalog order
C2_MembersSorted ==
    pc # "infer" =>
        \A f \in 1..Len(families) :
            LET F == families[f].val
                input == SelectSeq(CatalogIds, LAMBDA id : FamilyNameOf(id) = families[f].key)
            IN  /\ Len(F.members) > 0
                /\ F.latest = F.members[1]
                /\ F.latest \in Range(F.members)
                /\ Len(F.members) = Len(input)
                /\ \A i, j \in 1..Len(F.members) :
                      i < j => ~VLt(extract_version(F.members[i]),
                                    extract_version(F.members[j]))
                /\ \A m \in Range(input) :
                      SelectSeq(F.members, LAMBDA x : SameVersion(x, m))
                          = SelectSeq(input, LAMBDA x : SameVersion(x, m))

C2_Witness ==
    /\ pc = "aliases"
    /\ CatalogIds = <<"anthropic/claude-4-sonnet", "anthropic/claude-sonnet-4",
                      "anthropic/claude-sonnet-4.5">>
    /\ Len(families) = 1
    /\ families[1].val.members = <<"anthropic/claude-sonnet-4.5",
                                   "anthropic/claude-4-sonnet",
                                   "anthropic/claude-sonnet-4">>

\* C3: every alias value is the latest id of some family, also for an alias
\* that two families registered
C3_AliasValuesAreLatest ==
    pc = "fetch_benchmarks" =>
        \A a \in 1..Len(aliases) :
            \E f \in 1..Len(families) : aliases[a].val = families[f].val.latest

\* "o1" is registered by gpt-4 (the short form of a member) and then by o1
C3_Witness ==
    /\ pc = "fetch_benchmarks"
    /\ CatalogIds = <<"openai/gpt-4.1", "openai/gpt-4-turbo/o1", "openai/o1">>
    /\ Get(aliases, "openai/gpt-4-turbo/o1") = "openai/gpt-4.1"
    /\ Get(aliases, "o1") = "openai/o1"

\* C4: the earliest matching rule alone gives a model its family and the
\* family its tier; no id is in two families; an id matching no rule is in none
C4_FirstMatchWins ==
    pc # "infer" =>
        /\ \A f, g \in 1..Len(families) :
              f # g => /\ families[f].key # families[g].key
                       /\ Range(families[f].val.members)
                              \cap Range(families[g].val.members) = {}
        /\ \A f \in 1..Len(families) :
              Range(families[f].val.members) \subseteq Range(CatalogIds)
        /\ \A id \in Range(CatalogIds) :
              IF EarliestRule(id) = 0
              THEN \A f \in 1..Len(families) : id \notin Range(families[f].val.members)
              ELSE \E f \in 1..Len(families) :
                      /\ families[f].key = MODEL_FAMILY_PATTERNS[EarliestRule(id)].family
                      /\ families[f].val.tier = MODEL_FAMILY_PATTERNS[EarliestRule(id)].tier
                      /\ id \in Range(families[f].val.members)

C4_Witness ==
    /\ pc = "aliases"
    /\ CatalogIds = <<"mistralai/mixtral-8x7b", "openai/o1", "anthropic/claude-sonnet-4">>
    /\ Len(families) = 2
    /\ families[1].key = "o1" /\ families[1].val.tier = "flagship"
    /\ families[2].key = "claude-sonnet" /\ families[2].val.tier = "mid"

\* C10: no alias value is an alias key
C10_NoAliasChains ==
    pc = "fetch_benchmarks" =>
        \A a \in 1..Len(aliases) : ~KeyIn(aliases[a].val, aliases)

C10_Witness ==
    /\ pc = "fetch_benchmarks"
    /\ Len(families) = 2
    /\ KeyIn("anthropic/claude-sonnet-4", aliases)
    /\ Get(aliases, "anthropic/claude-sonnet-4") = "anthropic/claude-sonnet-4.5"
    /\ Get(aliases, "sonnet") = "anthropic/claude-sonnet-4.5"

-----------------------------------------------------------------------------
(* Properties of the merge, under Spec *)

\* some tier of match_model finds scores for id in the score map
Attributed(id) ==
    \/ id \in Keys(model_scores)
    \/ normalize_model_id(id) \in Keys(model_scores)
    \/ Contains(id, "/") /\ SubstringHits(id, model_scores) # {}

\* the benchmark catalog holds scores under an identifier of the model id:
\* the same name once vendor prefix, case and date stamp are set aside
HoldsScoresFor(id) ==
    \E key \in Keys(model_scores) :
        normalize_model_id(TrailingSegment(key)) = normalize_model_id(TrailingSegment(id))

\* the benchmark catalog scores the model with identifier id in every category
ScoredInEveryCategory(id) ==
    /\ KeyIn(id, model_scores)
    /\ \A c \in 1..Len(KEY_BENCHMARKS) : KeyIn(KEY_BENCHMARKS[c].key, Get(model_scores, id))

\* C5 as stated: models_with_benchmarks counts the catalog models the
\* benchmark catalog holds scores for, the others have null benchmarks and
\* category_scores; with two models, one scored in every category and no
\* scores held for the other, the count is 1
C5_CountsModelsWithOwnScores ==
    pc = "done" =>
        LET out == The(output)
        IN  /\ out.models_with_benchmarks
                  = Cardinality({k \in 1..Len(out.models) : HoldsScoresFor(out.models[k].id)})
            /\ \A k \in 1..Len(out.models) :
                  ~HoldsScoresFor(out.models[k].id)
                      => /\ IsNone(out.models[k].benchmarks)
                         /\ IsNone(out.models[k].category_scores)
            /\ (/\ Len(out.models) = 2
                /\ \E id \in Keys(model_scores) :
                      /\ ScoredInEveryCategory(id)
                      /\ normalize_model_id(TrailingSegment(id))
                             = normalize_model_id(TrailingSegment(out.models[1].id))
                /\ ~HoldsScoresFor(out.models[2].id))
               => /\ out.models_with_benchmarks = 1
                  /\ IsNone(out.models[2].category_scores)

\* C5 amended: models_with_benchmarks counts the catalog models to which
\* some tier of match_model attributes scores; a model with none attributed
\* has null benchmarks and category_scores; with two models, scores
\* attributed to the first and none to the second, the count is 1
C5_CountsAttributedModels ==
    pc = "done" =>
        LET out == The(output)
        IN  /\ out.models_with_benchmarks
                  = Cardinality({k \in 1..Len(out.models) : Attributed(out.models[k].id)})
            /\ \A k \in 1..Len(out.models) :
                  IF Attributed(out.models[k].id)
                  THEN /\ ~IsNone(out.models[k].benchmarks)
                       /\ ~IsNone(out.models[k].category_scores)
                  ELSE /\ IsNone(out.models[k].benchmarks)
                       /\ IsNone(out.models[k].category_scores)
            /\ (/\ Len(out.models) = 2
                /\ Attributed(out.models[1].id)
                /\ ~Attributed(out.models[2].id))
               => /\ out.models_with_benchmarks = 1
                  /\ IsNone(out.models[2].category_scores)

C5_Witness ==
    /\ pc = "done"
    /\ CatalogIds = <<"openai/gpt-4o", "anthropic/claude-3-5-sonnet-20240620">>
    /\ server.cov = <<"all", "none", "none">>
    /\ ScoredInEveryCategory("gpt-4o")
    /\ The(output).models_with_benchmarks = 1
    /\ Len(The(The(output).models[1].category_scores)) = Len(KEY_BENCHMARKS)
    /\ IsNone(The(output).models[2].category_scores)

\* C6: the output has one record per catalog model, in catalog order, under
\* the model's own id, and total_models is the size of the catalog
C6_OneRecordPerModel ==
    /\ pc = "merge" =>
          /\ Len(merged_models) <= Len(catalog)
          /\ \A k \in 1..Len(merged_models) : merged_models[k].id = CatalogIds[k]
    /\ pc = "done" =>
          /\ ~IsNone(output)
          /\ OUTPUT_FILE \in files
          /\ The(output).total_models = Len(catalog)
          /\ Len(The(output).models) = Len(catalog)
          /\ \A k \in 1..Len(catalog) :
                The(output).models[k].id
                    = (IF "id" \in DOMAIN catalog[k] THEN catalog[k].id ELSE "")

\* a model in no family and without scores beside one with both
C6_Witness ==
    /\ pc = "done"
    /\ CatalogIds = <<"mistralai/mixtral-8x7b", "openai/gpt-4o">>
    /\ server.cov = <<"all", "none", "none">>
    /\ Len(families) = 1
    /\ IsNone(The(output).models[1].benchmarks)
    /\ ~IsNone(The(output).models[2].benchmarks)
    /\ The(output).total_models = 2

Aborted == pc \in {"exit_no_models", "exit_no_benchmarks"}

\* C7 as stated: at either abort no file has been written
C7_NoFileAtAbort == Aborted => files = {}

\* C7 amended: at either abort the merged output and the benchmark metadata
\* have not been written; no file at all when the provider catalog is
\* unavailable, openrouter_models_raw.json alone when the benchmark catalog is
C7_NoOutputAtAbort ==
    /\ Aborted => IsNone(output) /\ OUTPUT_FILE \notin files /\ BENCH_FILE \notin files
    /\ pc = "exit_no_models" => files = {}
    /\ pc = "exit_no_benchmarks" => files = {RAW_FILE}

C7_Witness ==
    /\ pc = "exit_no_benchmarks"
    /\ ~server.available
    /\ Len(catalog) = 2
    /\ files = {RAW_FILE}

====
